---- MODULE Spec2Model ----
(***************************************************************************)
(* Model of the data-fetch flow of the MobileDev storefront:               *)
(*   - the remote data gateway (services/api.js): getProductsByCategory,   *)
(*     getProductDetails;                                                  *)
(*   - the catalog aggregator (components/CategoryProductList.js): the     *)
(*     component state, loadProducts, the triggers that invoke it and the  *)
(*     conditional rendering.                                              *)
(***************************************************************************)
EXTENDS Naturals, Sequences, FiniteSets

\* ------------------------------------------------------------------ bounds

\* Number of loadProducts invocations one behaviour may start.
MaxLoads == 2
\* Longest sequence of category slugs passed as the categories prop.
MaxSlugs == 2
\* Longest products array in one category response.
MaxRespLen == 2
\* Number of gateway calls one behaviour of the gateway specification makes.
MaxCalls == 2
\* Number of actions one behaviour of the store specification dispatches.
MaxDispatches == 4

\* ------------------------------------------------------------------ data

Null == "null"
Undefined == "undefined"

Slugs == {"a", "b"}
Ids == {1, 2}
Titles == {"x", "y"}

\* A product as the remote API returns it (id and one distinguishing field).
Items == [id : Ids, title : Titles]

SeqsUpTo(S, n) == UNION {[1..k -> S] : k \in 0..n}

\* The values of the categories prop.
SlugSeqs == SeqsUpTo(Slugs, MaxSlugs)

\* The products arrays a category response may carry.
ProductArrays == SeqsUpTo(Items, MaxRespLen)

\* ------------------------------------------------------- the remote API

\* Outcomes of api.get as axios reports them.  "network" and "timeout" carry
\* no response; "status" is a non-2xx response with a body; "ok" is a 2xx
\* response whose data is an object with a products array ("products"), an
\* object without one ("noProducts") or null ("nullData").
TransportFailures ==
    { [kind |-> "network", cause |-> "Network Error", data |-> Undefined],
      [kind |-> "timeout", cause |-> "timeout of 10000ms exceeded", data |-> Undefined],
      [kind |-> "status", cause |-> "Request failed with status code 404",
       data |-> "Category not found"],
      [kind |-> "status", cause |-> "Request failed with status code 500",
       data |-> Undefined] }

MalformedBodies ==
    { [kind |-> "ok", body |-> "noProducts"],
      [kind |-> "ok", body |-> "nullData"] }

CategoryResponses ==
    TransportFailures \cup MalformedBodies
      \cup { [kind |-> "ok", body |-> "products", products |-> p] : p \in ProductArrays }

DetailResponses ==
    TransportFailures
      \cup { [kind |-> "ok", body |-> "product", product |-> i] : i \in Items }
      \cup { [kind |-> "ok", body |-> "nullData"] }

\* ------------------------------------------------------------ the gateway

ProductsUnavailable == "Nao foi possivel carregar os produtos. Tente novamente mais tarde."
DetailsUnavailable == "Nao foi possivel carregar os detalhes do produto. Tente novamente mais tarde."
\* Message of the TypeError raised by reading a property of null.
NullPropertyError == "Cannot read properties of null"
\* Message of the TypeError raised by spreading a value that is not iterable.
NotIterableError == "categoryProducts is not iterable"
LoadFallback == "Falha ao carregar os produtos."

\* What the catch block of a gateway function passes to console.error:
\* error.response?.data || error.message.
Logged(resp) ==
    IF resp.kind = "ok" THEN NullPropertyError
    ELSE IF resp.data # Undefined THEN resp.data
    ELSE resp.cause

\* A catch block that rethrows the error of the request.
RethrowCause(resp) ==
    [type |-> "throw",
     message |-> IF resp.kind = "ok" THEN NullPropertyError ELSE resp.cause]

\* How a gateway call ends: {type: "return", value}, {type: "undefined"} or
\* {type: "null"} for a return of undefined or null, {type: "throw", message}.
\* The error a gateway function throws for a failed request.
ThrowProductsError(resp) == [type |-> "throw", message |-> ProductsUnavailable]

getProductsByCategory(resp) ==
    IF resp.kind = "ok" /\ resp.body = "products"
      THEN [type |-> "return", value |-> resp.products]
    ELSE IF resp.kind = "ok" /\ resp.body = "noProducts"
      THEN [type |-> "undefined"]
    ELSE ThrowProductsError(resp)

ThrowDetailsError(resp) == [type |-> "throw", message |-> DetailsUnavailable]

getProductDetails(resp) ==
    IF resp.kind = "ok" /\ resp.body = "product"
      THEN [type |-> "return", value |-> resp.product]
    ELSE IF resp.kind = "ok"
      THEN [type |-> "null"]
    ELSE ThrowDetailsError(resp)

\* Whether the gateway function's catch block ran (and logged).
ProductsCatchRan(resp) == getProductsByCategory(resp).type = "throw"
DetailsCatchRan(resp) == getProductDetails(resp).type = "throw"

\* ------------------------------------------------- CategoryProductList

VARIABLES
    mounted,      \* whether the mount effect has run
    categories,   \* the categories prop
    products,     \* useState([])
    isLoading,    \* useState(true)
    error,        \* useState(null)
    refreshing,   \* useState(false)
    invocations,  \* the loadProducts invocations suspended at their await
    started,      \* number of loadProducts invocations started so far
    lastDone,     \* history: the invocation that completed last
    newestDone    \* history: highest start number among completed invocations

listVars == <<mounted, categories, products, isLoading, error, refreshing,
              invocations, started, lastDone, newestDone>>

\* Position of the first element of s whose id is k (0 when there is none).
RECURSIVE FirstIndex(_, _, _)
FirstIndex(s, k, i) ==
    IF i > Len(s) THEN 0
    ELSE IF s[i].id = k THEN i
    ELSE FirstIndex(s, k, i + 1)

\* new Map(pairs): a key keeps the position of its first insertion and takes
\* the value of its last one.  The map is a sequence of items, one per key.
RECURSIVE MapOf(_, _)
MapOf(m, s) ==
    IF s = <<>> THEN m
    ELSE LET item == Head(s)
             at == FirstIndex(m, item.id, 1)
         IN MapOf(IF at = 0 THEN Append(m, item)
                  ELSE [m EXCEPT ![at] = item],
                  Tail(s))

\* A deduplication that keeps the first occurrence of an id.
UniqueFirstSeen(allProducts) ==
    LET RECURSIVE Go(_, _)
        Go(m, s) == IF s = <<>> THEN m
                    ELSE Go(IF FirstIndex(m, Head(s).id, 1) = 0
                              THEN Append(m, Head(s)) ELSE m, Tail(s))
    IN Go(<<>>, allProducts)

\* No deduplication at all.
KeepAll(allProducts) == allProducts

\* Array.from(new Map(allProducts.map(item => [item.id, item])).values())
UniqueProducts(allProducts) == MapOf(<<>>, allProducts)

\* An accumulation that keeps only the category fetched last.
KeepLatestCategory(allProducts, categoryProducts) == categoryProducts

\* allProducts = [...allProducts, ...categoryProducts]
Accumulate(allProducts, categoryProducts) == allProducts \o categoryProducts

\* err.message || 'Falha ao carregar os produtos.'
ErrorText(message) == IF message = "" THEN LoadFallback ELSE message

\* A rendering that tests the empty list before the error.
ViewEmptyFirst(loading, refresh, err, prods) ==
    IF loading /\ ~refresh THEN "spinner"
    ELSE IF Len(prods) = 0 /\ ~loading THEN "empty"
    ELSE IF err # Null THEN "error"
    ELSE "list"

\* The conditional rendering: which of the four views is returned.
ViewOf(loading, refresh, err, prods) ==
    IF loading /\ ~refresh THEN "spinner"
    ELSE IF err # Null THEN "error"
    ELSE IF Len(prods) = 0 /\ ~loading THEN "empty"
    ELSE "list"

View == ViewOf(isLoading, refreshing, error, products)

\* A start of loadProducts that drops the invocations still in flight.
SupersedeInFlight(inFlight, inv) == {inv}

\* The invocations in flight once a new one has reached its first await.
InFlightAfterStart(inFlight, inv) == inFlight \cup {inv}

\* lastDone records, for the invocation that completed last: its start number,
\* whether it completed without error, the products arrays its requests
\* returned (in order), the message of the error it caught, the product
\* list stored when it completed, and the number of requests it issued.
NoneDone == [seq |-> 0, ok |-> TRUE, got |-> <<>>, message |-> Null,
             before |-> <<>>, requests |-> 0]

\* A loop that issues the requests of all categories at once.
RequestsFannedOut(cats) == Len(cats)

\* The requests an invocation has issued when it reaches its first await:
\* the loop awaits the first category before it goes on.
RequestsAtStart(cats) == 1

\* loadProducts up to its first await.  With no category the loop body never
\* runs and the invocation completes without suspending.
LoadProducts(cats, refresh) ==
    /\ started < MaxLoads
    /\ started' = started + 1
    /\ IF cats = <<>>
         THEN /\ products' = UniqueProducts(<<>>)
              /\ error' = Null
              /\ isLoading' = FALSE
              /\ refreshing' = FALSE
              /\ invocations' = invocations
              /\ lastDone' = [seq |-> started + 1, ok |-> TRUE, got |-> <<>>,
                              message |-> Null, before |-> products,
                              requests |-> 0]
              /\ newestDone' = started + 1
         ELSE /\ isLoading' = TRUE
              /\ error' = Null
              /\ refreshing' = refresh
              /\ invocations' = InFlightAfterStart(invocations,
                                   [seq |-> started + 1, cats |-> cats, idx |-> 1,
                                    allProducts |-> <<>>, got |-> <<>>,
                                    requests |-> RequestsAtStart(cats)])
              /\ UNCHANGED <<products, lastDone, newestDone>>

\* useEffect(() => { loadProducts(); }, [loadProducts]) on mount.
Mount ==
    /\ ~mounted
    /\ mounted' = TRUE
    /\ LoadProducts(categories, refreshing)
    /\ UNCHANGED categories

\* The parent passes a new categories array: loadProducts is recreated and
\* the effect runs it again.
CategoriesChange(cats) ==
    /\ mounted
    /\ categories' = cats
    /\ LoadProducts(cats, refreshing)
    /\ UNCHANGED mounted

\* "Tentar Novamente", rendered in the error view.
RetryTap ==
    /\ mounted
    /\ View = "error"
    /\ LoadProducts(categories, refreshing)
    /\ UNCHANGED <<mounted, categories>>

\* "Recarregar", rendered in the empty view.
ReloadTap ==
    /\ mounted
    /\ View = "empty"
    /\ LoadProducts(categories, refreshing)
    /\ UNCHANGED <<mounted, categories>>

\* onRefresh, offered by the RefreshControl of the list; the control does not
\* fire it again while its refreshing prop is true.
OnRefresh ==
    /\ mounted
    /\ View = "list"
    /\ ~refreshing
    /\ LoadProducts(categories, TRUE)
    /\ UNCHANGED <<mounted, categories>>

\* A finally block that leaves refreshing as it is.
FailKeepsRefreshing(inv, message) ==
    /\ error' = ErrorText(message)
    /\ isLoading' = FALSE
    /\ invocations' = invocations \ {inv}
    /\ lastDone' = [seq |-> inv.seq, ok |-> FALSE, got |-> inv.got,
                    message |-> message, before |-> products,
                    requests |-> inv.requests]
    /\ newestDone' = IF inv.seq > newestDone THEN inv.seq ELSE newestDone
    /\ UNCHANGED <<products, refreshing>>

\* A loop that skips a failed category and goes on to the next one.
FailThenContinue(inv, message) ==
    IF inv.idx < Len(inv.cats)
      THEN /\ invocations' = (invocations \ {inv}) \cup
                                {[inv EXCEPT !.idx = inv.idx + 1,
                                             !.requests = inv.requests + 1]}
           /\ UNCHANGED <<products, isLoading, error, refreshing, lastDone,
                          newestDone>>
      ELSE /\ error' = ErrorText(message)
           /\ isLoading' = FALSE
           /\ refreshing' = FALSE
           /\ invocations' = invocations \ {inv}
           /\ lastDone' = [seq |-> inv.seq, ok |-> FALSE, got |-> inv.got,
                           message |-> message, before |-> products,
                           requests |-> inv.requests]
           /\ newestDone' = IF inv.seq > newestDone THEN inv.seq ELSE newestDone
           /\ UNCHANGED products

\* The catch and finally blocks of loadProducts.
Fail(inv, message) ==
    /\ error' = ErrorText(message)
    /\ isLoading' = FALSE
    /\ refreshing' = FALSE
    /\ invocations' = invocations \ {inv}
    /\ lastDone' = [seq |-> inv.seq, ok |-> FALSE, got |-> inv.got,
                    message |-> message, before |-> products,
                    requests |-> inv.requests]
    /\ newestDone' = IF inv.seq > newestDone THEN inv.seq ELSE newestDone
    /\ UNCHANGED products

\* The request awaited by invocation inv settles with resp, and loadProducts
\* runs on to its next await or to its end.
Respond(inv, resp) ==
    /\ inv \in invocations
    /\ LET out == getProductsByCategory(resp)
       IN IF out.type = "throw"
            THEN Fail(inv, out.message)
          ELSE IF out.type = "undefined"
            THEN Fail(inv, NotIterableError)
          ELSE LET all == Accumulate(inv.allProducts, out.value)
                   got == Append(inv.got, out.value)
               IN IF inv.idx < Len(inv.cats)
                    THEN /\ invocations' = (invocations \ {inv}) \cup
                                {[inv EXCEPT !.idx = inv.idx + 1,
                                             !.allProducts = all, !.got = got,
                                             !.requests = inv.requests + 1]}
                         /\ UNCHANGED <<products, isLoading, error, refreshing,
                                        lastDone, newestDone>>
                    ELSE /\ products' = UniqueProducts(all)
                         /\ isLoading' = FALSE
                         /\ refreshing' = FALSE
                         /\ invocations' = invocations \ {inv}
                         /\ lastDone' = [seq |-> inv.seq, ok |-> TRUE, got |-> got,
                                         message |-> Null, before |-> products,
                                         requests |-> inv.requests]
                         /\ newestDone' = IF inv.seq > newestDone
                                            THEN inv.seq ELSE newestDone
                         /\ UNCHANGED error
    /\ UNCHANGED <<mounted, categories, started>>

\* ------------------------------------------- calls made to the gateway

VARIABLES
    gwCall,       \* the gateway call whose request is pending, or NoCall
    gwSettled,    \* the call settled last: operation, response, outcome
    gwConsole,    \* what the gateway last passed to console.error
    gwCalls       \* number of gateway calls made so far

gwVars == <<gwCall, gwSettled, gwConsole, gwCalls>>

NoCall == [op |-> "none"]

\* A caller invokes getProductsByCategory(category); api.get is awaited.
CallProductsByCategory(category) ==
    /\ gwCall = NoCall
    /\ gwCalls < MaxCalls
    /\ gwCall' = [op |-> "getProductsByCategory", arg |-> category]
    /\ gwCalls' = gwCalls + 1
    /\ UNCHANGED <<gwSettled, gwConsole>>

\* A caller invokes getProductDetails(id); api.get is awaited.
CallProductDetails(id) ==
    /\ gwCall = NoCall
    /\ gwCalls < MaxCalls
    /\ gwCall' = [op |-> "getProductDetails", arg |-> id]
    /\ gwCalls' = gwCalls + 1
    /\ UNCHANGED <<gwSettled, gwConsole>>

\* The pending request of getProductsByCategory settles with resp.
SettleProductsByCategory(resp) ==
    /\ gwCall.op = "getProductsByCategory"
    /\ gwSettled' = [op |-> gwCall.op, resp |-> resp,
                     outcome |-> getProductsByCategory(resp)]
    /\ gwConsole' = IF ProductsCatchRan(resp) THEN Logged(resp) ELSE gwConsole
    /\ gwCall' = NoCall
    /\ UNCHANGED gwCalls

\* The pending request of getProductDetails settles with resp.
SettleProductDetails(resp) ==
    /\ gwCall.op = "getProductDetails"
    /\ gwSettled' = [op |-> gwCall.op, resp |-> resp,
                     outcome |-> getProductDetails(resp)]
    /\ gwConsole' = IF DetailsCatchRan(resp) THEN Logged(resp) ELSE gwConsole
    /\ gwCall' = NoCall
    /\ UNCHANGED gwCalls

\* ------------------------------------------------------ the redux store

\* JavaScript values that may be null or undefined instead of an object.
JsNull == [type |-> "null"]
JsUndefined == [type |-> "undefined"]
JsValue(v) == [type |-> "value", value |-> v]

\* The profile mockLogin resolves with, and another payload of loginSuccess.
MockUser == [username |-> "user", name |-> "Usuario Teste"]
OtherUser == [username |-> "other"]
Users == {MockUser, OtherUser}

VARIABLES
    auth,         \* state.auth: isLoggedIn, user
    productState, \* state.products: categories, currentProduct, status, error
    thunks,       \* the thunks whose payload creator awaits the gateway
    dispatched    \* history: number of actions dispatched, the last one, and
                  \* the state it was applied to

storeVars == <<auth, productState, thunks, dispatched>>

\* initialState of authSlice.
AuthInitialState == [isLoggedIn |-> FALSE, user |-> JsNull]

\* initialState of productSlice; categories is an object without keys.
ProductInitialState ==
    [categories |-> <<>>, currentProduct |-> JsNull, status |-> "idle",
     error |-> Null]

\* Action creators.
loginSuccess(payload) == [type |-> "auth/loginSuccess", payload |-> payload]
logout == [type |-> "auth/logout"]
Pending(prefix, arg) == [type |-> prefix \o "/pending", meta |-> [arg |-> arg]]
Fulfilled(prefix, arg, payload) ==
    [type |-> prefix \o "/fulfilled", meta |-> [arg |-> arg], payload |-> payload]
Rejected(prefix, arg, payload) ==
    [type |-> prefix \o "/rejected", meta |-> [arg |-> arg], payload |-> payload]

\* A loginSuccess reducer that merges the payload into the stored profile.
MergeUser(state, action) ==
    LET old == IF state.user = JsNull THEN <<>> ELSE state.user.value
        new == action.payload.user
        merged == [f \in DOMAIN old \cup DOMAIN new |->
                      IF f \in DOMAIN new THEN new[f] ELSE old[f]]
    IN [isLoggedIn |-> TRUE, user |-> JsValue(merged)]

\* A loginSuccess reducer that sets the flag and leaves the profile.
LoginWithoutUser(state, action) == [state EXCEPT !.isLoggedIn = TRUE]

\* reducers.loginSuccess
LoginSuccessReducer(state, action) ==
    [isLoggedIn |-> TRUE, user |-> JsValue(action.payload.user)]

\* A logout reducer that keeps the profile.
LogoutKeepsUser(state) == [state EXCEPT !.isLoggedIn = FALSE]

\* reducers.logout
LogoutReducer(state) == [isLoggedIn |-> FALSE, user |-> JsNull]

\* An auth reducer that also logs out when a thunk is rejected.
authReducerResetsOnRejected(state, action) ==
    IF action.type = "auth/loginSuccess" THEN LoginSuccessReducer(state, action)
    ELSE IF action.type \in {"auth/logout", "products/fetchByCategory/rejected",
                             "products/fetchDetails/rejected"}
      THEN LogoutReducer(state)
    ELSE state

\* authSlice.reducer: every action of another slice leaves the state as it is.
authReducer(state, action) ==
    IF action.type = "auth/loginSuccess" THEN LoginSuccessReducer(state, action)
    ELSE IF action.type = "auth/logout" THEN LogoutReducer(state)
    ELSE state

\* An assignment that drops the entries of the other categories.
SetOnlyCategory(cats, category, entry) == [c \in {category} |-> entry]

\* state.categories[category] = entry
SetCategory(cats, category, entry) ==
    [c \in DOMAIN cats \cup {category} |-> IF c = category THEN entry ELSE cats[c]]

\* A fulfilled reducer that appends the new products to the stored ones.
MergeItems(cats, payload) ==
    LET old == IF payload.category \in DOMAIN cats
                 THEN cats[payload.category].items.value ELSE <<>>
        new == IF payload.products = JsUndefined THEN <<>>
               ELSE payload.products.value
    IN SetCategory(cats, payload.category,
                   [items |-> JsValue(old \o new), status |-> "succeeded",
                    error |-> Null])

\* fetchProductsByCategory.fulfilled
CategoryFulfilled(cats, payload) ==
    SetCategory(cats, payload.category,
                [items |-> payload.products, status |-> "succeeded", error |-> Null])

\* fetchProductsByCategory.pending
CategoryPending(cats, category) ==
    IF category \notin DOMAIN cats
      THEN SetCategory(cats, category,
                       [items |-> JsValue(<<>>), status |-> "loading", error |-> Null])
      ELSE [cats EXCEPT ![category].status = "loading"]

\* fetchProductsByCategory.rejected
CategoryRejected(cats, category, payload) ==
    IF category \notin DOMAIN cats
      THEN SetCategory(cats, category,
                       [items |-> JsValue(<<>>), status |-> "failed", error |-> payload])
      ELSE [cats EXCEPT ![category].status = "failed", ![category].error = payload]

\* productSlice.reducer
productReducer(state, action) ==
    IF action.type = "products/fetchByCategory/pending"
      THEN [state EXCEPT !.categories =
                CategoryPending(state.categories, action.meta.arg.category)]
    ELSE IF action.type = "products/fetchByCategory/fulfilled"
      THEN [state EXCEPT !.categories =
                CategoryFulfilled(state.categories, action.payload)]
    ELSE IF action.type = "products/fetchByCategory/rejected"
      THEN [state EXCEPT !.categories =
                CategoryRejected(state.categories, action.meta.arg.category,
                                 action.payload)]
    ELSE IF action.type = "products/fetchDetails/pending"
      THEN [state EXCEPT !.status = "loading", !.error = Null]
    ELSE IF action.type = "products/fetchDetails/fulfilled"
      THEN [state EXCEPT !.status = "succeeded", !.currentProduct = action.payload]
    ELSE IF action.type = "products/fetchDetails/rejected"
      THEN [state EXCEPT !.status = "failed", !.error = action.payload]
    ELSE state

NoAction == [type |-> "@@INIT"]

\* store.dispatch(action): the root reducer runs each slice reducer.
Dispatch(action) ==
    /\ auth' = authReducer(auth, action)
    /\ productState' = productReducer(productState, action)
    /\ dispatched' = [count |-> dispatched.count + 1, action |-> action,
                      before |-> [auth |-> auth, products |-> productState]]

\* dispatch(loginSuccess({ user })) with any profile.
DispatchLoginSuccess(user) ==
    /\ dispatched.count < MaxDispatches
    /\ Dispatch(loginSuccess([user |-> user]))
    /\ UNCHANGED thunks

\* dispatch(logout())
DispatchLogout ==
    /\ dispatched.count < MaxDispatches
    /\ Dispatch(logout)
    /\ UNCHANGED thunks

\* dispatch(fetchProductsByCategory({ category })): pending is dispatched and
\* the payload creator awaits getProductsByCategory.
FetchProductsByCategory(category) ==
    /\ dispatched.count < MaxDispatches
    /\ Dispatch(Pending("products/fetchByCategory", [category |-> category]))
    /\ thunks' = thunks \cup {[requestId |-> dispatched.count + 1,
                               prefix |-> "products/fetchByCategory",
                               arg |-> [category |-> category]]}

\* The payload creator of fetchProductsByCategory resumes.
SettleFetchProductsByCategory(thunk, resp) ==
    /\ thunk \in thunks
    /\ thunk.prefix = "products/fetchByCategory"
    /\ dispatched.count < MaxDispatches
    /\ LET out == getProductsByCategory(resp)
       IN IF out.type = "throw"
            THEN Dispatch(Rejected(thunk.prefix, thunk.arg, out.message))
            ELSE Dispatch(Fulfilled(thunk.prefix, thunk.arg,
                    [category |-> thunk.arg.category,
                     products |-> IF out.type = "undefined" THEN JsUndefined
                                  ELSE JsValue(out.value)]))
    /\ thunks' = thunks \ {thunk}

\* dispatch(fetchProductDetails(productId))
FetchProductDetails(productId) ==
    /\ dispatched.count < MaxDispatches
    /\ Dispatch(Pending("products/fetchDetails", [productId |-> productId]))
    /\ thunks' = thunks \cup {[requestId |-> dispatched.count + 1,
                               prefix |-> "products/fetchDetails",
                               arg |-> [productId |-> productId]]}

\* The payload creator of fetchProductDetails resumes.
SettleFetchProductDetails(thunk, resp) ==
    /\ thunk \in thunks
    /\ thunk.prefix = "products/fetchDetails"
    /\ dispatched.count < MaxDispatches
    /\ LET out == getProductDetails(resp)
       IN IF out.type = "throw"
            THEN Dispatch(Rejected(thunk.prefix, thunk.arg, out.message))
            ELSE Dispatch(Fulfilled(thunk.prefix, thunk.arg,
                    IF out.type = "null" THEN JsNull ELSE JsValue(out.value)))
    /\ thunks' = thunks \ {thunk}

\* --------------------------------------------------------- navigation

\* A navigator with the two branches exchanged.
AppNavigatorInverted(isLoggedIn) ==
    IF isLoggedIn THEN "AuthNavigator" ELSE "MainAppNavigator"

\* AppNavigator: the flow rendered for a value of state.auth.isLoggedIn.
AppNavigator(isLoggedIn) ==
    IF isLoggedIn THEN "MainAppNavigator" ELSE "AuthNavigator"

\* The flow on screen: MainAppNavigator holds the product list, the product
\* details and the settings; AuthNavigator holds the login screen.
Flow == AppNavigator(auth.isLoggedIn)

VARIABLES
    alert,        \* the Alert on screen, or NoAlert
    alertChoice   \* history: the button that closed the last logout alert

alertVars == <<alert, alertChoice>>

NoAlert == [title |-> "none"]
FieldsAlert == [title |-> "Atencao"]
LogoutAlert == [title |-> "Sair"]
DetailsAlert == [title |-> "Erro"]
NavigateAlert == [title |-> "Navegar"]

\* ---------------------------------------------------------- LoginScreen

\* Text typed into a field, as a sequence of characters.
User == <<"u", "s", "e", "r">>
Password == <<"p", "a", "s", "s", "w", "o", "r", "d">>
Texts == { <<>>, <<" ">>, User, User \o <<" ">>, Password, <<"x">> }

RECURSIVE TrimStart(_)
TrimStart(text) ==
    IF text # <<>> /\ Head(text) = " " THEN TrimStart(Tail(text)) ELSE text

RECURSIVE TrimEnd(_)
TrimEnd(text) ==
    IF text # <<>> /\ text[Len(text)] = " "
      THEN TrimEnd(SubSeq(text, 1, Len(text) - 1)) ELSE text

\* String.prototype.trim
Trim(text) == TrimEnd(TrimStart(text))

InvalidCredentials == "Usuario ou senha invalidos."
LoginFallback == "Ocorreu um erro ao tentar fazer login."

\* A login that compares the trimmed username only.
mockLoginUsernameOnly(name, pass) ==
    IF Trim(name) = User
      THEN [type |-> "resolve", value |-> [success |-> TRUE, user |-> MockUser]]
      ELSE [type |-> "reject", message |-> InvalidCredentials]

\* mockLogin: how the promise settles when the timer fires.
mockLogin(name, pass) ==
    IF name = User /\ pass = Password
      THEN [type |-> "resolve", value |-> [success |-> TRUE, user |-> MockUser]]
      ELSE [type |-> "reject", message |-> InvalidCredentials]

VARIABLES
    username,           \* useState('')
    password,           \* useState('')
    loginLoading,       \* isLoading, useState(false)
    isUsernameValid,    \* useState(true)
    isPasswordValid,    \* useState(true)
    showPassword,       \* useState(false)
    loginErrorMessage,  \* useState('')
    loginAttempts,      \* the handleLogin invocations awaiting mockLogin
    loginDone           \* history: the attempt that settled last

loginVars == <<username, password, loginLoading, isUsernameValid,
               isPasswordValid, showPassword, loginErrorMessage, loginAttempts,
               loginDone>>

NoLogin == [name |-> <<>>, pass |-> <<>>, outcome |-> "none"]

\* The state of a LoginScreen that has just been mounted.
LoginMounted ==
    /\ username' = <<>>
    /\ password' = <<>>
    /\ loginLoading' = FALSE
    /\ isUsernameValid' = TRUE
    /\ isPasswordValid' = TRUE
    /\ showPassword' = FALSE
    /\ loginErrorMessage' = ""
    /\ loginAttempts' = {}

\* A validation that does not trim.
FieldsValidUntrimmed(name, pass) == name # <<>> /\ pass # <<>>

\* validateFields: the value it returns.
FieldsValid(name, pass) == Trim(name) # <<>> /\ Trim(pass) # <<>>

\* validateFields: the flags it sets.
ValidateFields ==
    /\ isUsernameValid' = (Trim(username) # <<>>)
    /\ isPasswordValid' = (Trim(password) # <<>>)

LoginScreenUsable == Flow = "AuthNavigator" /\ alert = NoAlert

\* onChangeText of the username field.
ChangeUsername(text) ==
    /\ LoginScreenUsable
    /\ username' = text
    /\ isUsernameValid' = IF ~isUsernameValid /\ Trim(text) # <<>>
                            THEN TRUE ELSE isUsernameValid
    /\ loginErrorMessage' = ""
    /\ UNCHANGED <<password, loginLoading, isPasswordValid, showPassword,
                   loginAttempts, loginDone>>
    /\ UNCHANGED <<alertVars, storeVars>>

\* onChangeText of the password field.
ChangePassword(text) ==
    /\ LoginScreenUsable
    /\ password' = text
    /\ isPasswordValid' = IF ~isPasswordValid /\ Trim(text) # <<>>
                            THEN TRUE ELSE isPasswordValid
    /\ loginErrorMessage' = ""
    /\ UNCHANGED <<username, loginLoading, isUsernameValid, showPassword,
                   loginAttempts, loginDone>>
    /\ UNCHANGED <<alertVars, storeVars>>

\* onBlur of either field.
BlurField ==
    /\ LoginScreenUsable
    /\ ValidateFields
    /\ UNCHANGED <<username, password, loginLoading, showPassword,
                   loginErrorMessage, loginAttempts, loginDone>>
    /\ UNCHANGED <<alertVars, storeVars>>

\* The eye button.
TogglePassword ==
    /\ LoginScreenUsable
    /\ showPassword' = ~showPassword
    /\ UNCHANGED <<username, password, loginLoading, isUsernameValid,
                   isPasswordValid, loginErrorMessage, loginAttempts, loginDone>>
    /\ UNCHANGED <<alertVars, storeVars>>

\* A button that stays enabled during a login.
EntrarAlwaysEnabled(loading) == FALSE

\* disabled={isLoading} of the "Entrar" button.
EntrarDisabled(loading) == loading

\* "Entrar": handleLogin up to its await.
HandleLogin ==
    /\ LoginScreenUsable
    /\ ~EntrarDisabled(loginLoading)
    /\ dispatched.count < MaxDispatches
    /\ loginErrorMessage' = ""
    /\ ValidateFields
    /\ IF ~FieldsValid(username, password)
         THEN /\ alert' = FieldsAlert
              /\ UNCHANGED <<loginLoading, loginAttempts>>
         ELSE /\ loginLoading' = TRUE
              /\ loginAttempts' = loginAttempts \cup
                    {[name |-> username, pass |-> password, requests |-> 1]}
              /\ UNCHANGED alert
    /\ UNCHANGED <<username, password, showPassword, loginDone, alertChoice,
                   storeVars>>

\* The catch and finally blocks of handleLogin.
LoginFailed(attempt, message) ==
    /\ loginErrorMessage' = IF message = "" THEN LoginFallback ELSE message
    /\ loginLoading' = FALSE
    /\ loginAttempts' = loginAttempts \ {attempt}
    /\ loginDone' = [name |-> attempt.name, pass |-> attempt.pass,
                     outcome |-> "failed"]
    /\ UNCHANGED <<username, password, isUsernameValid, isPasswordValid,
                   showPassword>>

\* The timer of mockLogin fires and handleLogin runs to its end.  After
\* loginSuccess the navigator replaces the login screen, whose state is gone.
SettleLogin(attempt) ==
    /\ attempt \in loginAttempts
    /\ LET out == mockLogin(attempt.name, attempt.pass)
       IN IF out.type = "reject"
            THEN LoginFailed(attempt, out.message) /\ UNCHANGED storeVars
          ELSE IF out.value.success
            THEN /\ Dispatch(loginSuccess([user |-> out.value.user]))
                 /\ LoginMounted
                 /\ loginDone' = [name |-> attempt.name, pass |-> attempt.pass,
                                  outcome |-> "loggedIn"]
                 /\ UNCHANGED thunks
          ELSE /\ loginErrorMessage' = InvalidCredentials
               /\ loginLoading' = FALSE
               /\ loginAttempts' = loginAttempts \ {attempt}
               /\ loginDone' = [name |-> attempt.name, pass |-> attempt.pass,
                                outcome |-> "failed"]
               /\ UNCHANGED <<username, password, isUsernameValid,
                              isPasswordValid, showPassword, storeVars>>
    /\ UNCHANGED alertVars

\* The button of an alert without choices, or a tap outside a cancelable one.
DismissAlert ==
    /\ alert # NoAlert
    /\ alert' = NoAlert
    /\ alertChoice' = IF alert = LogoutAlert THEN "dismiss" ELSE alertChoice
    /\ UNCHANGED <<loginVars, storeVars>>

\* ------------------------------------------------------- SettingsScreen

\* A handleLogout that dispatches without asking.
LogoutAtOnce(state) == LogoutReducer(state)

\* handleLogout: what pressing "Sair da conta" does to state.auth.
HandleLogoutAuth(state) == state

\* "Sair da conta": handleLogout shows the confirmation.
HandleLogout ==
    /\ Flow = "MainAppNavigator"
    /\ alert = NoAlert
    /\ dispatched.count < MaxDispatches
    /\ alert' = LogoutAlert
    /\ auth' = HandleLogoutAuth(auth)
    /\ UNCHANGED <<alertChoice, loginVars, productState, thunks, dispatched>>

\* "Meus Dados", "Notificacoes" and "Termos de uso" show a notice.
OptionPress ==
    /\ Flow = "MainAppNavigator"
    /\ alert = NoAlert
    /\ alert' = NavigateAlert
    /\ UNCHANGED <<alertChoice, loginVars, storeVars>>

\* "Cancelar".
ChooseCancelar ==
    /\ alert = LogoutAlert
    /\ alert' = NoAlert
    /\ alertChoice' = "Cancelar"
    /\ UNCHANGED <<loginVars, storeVars>>

\* "Sim": dispatch(logout()); the navigator mounts a new login screen.
ChooseSim ==
    /\ alert = LogoutAlert
    /\ alert' = NoAlert
    /\ alertChoice' = "Sim"
    /\ Dispatch(logout)
    /\ LoginMounted
    /\ UNCHANGED <<loginDone, thunks>>

\* -------------------------------------------------- ProductDetailsScreen

DetailsFallback == "Nao foi possivel carregar os detalhes do produto."

VARIABLES
    detailsMounted,     \* whether the screen is mounted
    productId,          \* route.params.productId
    product,            \* useState(null)
    detailsLoading,     \* isLoading, useState(true)
    detailsError,       \* error, useState(null)
    detailsInvocations, \* the loadProductDetails invocations awaiting the gateway
    detailsStarted,     \* number of loadProductDetails invocations started
    detailsDone         \* history: the invocation that completed last

detailsVars == <<detailsMounted, productId, product, detailsLoading,
                 detailsError, detailsInvocations, detailsStarted, detailsDone>>

NoDetailsDone == [seq |-> 0, ok |-> TRUE, message |-> Null, requests |-> 0]

\* A catch block that stores no message.
DetailsNoMessage(message) == Null

\* err.message || 'Nao foi possivel carregar os detalhes do produto.'
DetailsErrorText(message) == IF message = "" THEN DetailsFallback ELSE message

\* loadProductDetails up to its await.
LoadProductDetails(id) ==
    /\ detailsStarted < MaxLoads
    /\ detailsStarted' = detailsStarted + 1
    /\ detailsLoading' = TRUE
    /\ detailsError' = Null
    /\ detailsInvocations' = detailsInvocations \cup
          {[seq |-> detailsStarted + 1, productId |-> id, requests |-> 1]}
    /\ UNCHANGED <<product, detailsDone>>

\* The screen is pushed with a productId and its effect runs.
DetailsMount(id) ==
    /\ ~detailsMounted
    /\ detailsMounted' = TRUE
    /\ productId' = id
    /\ LoadProductDetails(id)
    /\ UNCHANGED alertVars

\* route.params.productId changes and the effect runs again.
ProductIdChange(id) ==
    /\ detailsMounted
    /\ id # productId
    /\ productId' = id
    /\ LoadProductDetails(id)
    /\ UNCHANGED <<detailsMounted, alertVars>>

\* The request awaited by invocation inv settles with resp, and
\* loadProductDetails runs to its end.
DetailsRespond(inv, resp) ==
    /\ inv \in detailsInvocations
    /\ detailsInvocations' = detailsInvocations \ {inv}
    /\ LET out == getProductDetails(resp)
       IN IF out.type = "throw"
            THEN /\ detailsError' = DetailsErrorText(out.message)
                 /\ alert' = DetailsAlert
                 /\ detailsLoading' = FALSE
                 /\ detailsDone' = [seq |-> inv.seq, ok |-> FALSE,
                                    message |-> out.message,
                                    requests |-> inv.requests]
                 /\ UNCHANGED <<product, alertChoice>>
            ELSE /\ product' = IF out.type = "null" THEN JsNull
                               ELSE JsValue(out.value)
                 /\ detailsLoading' = FALSE
                 /\ detailsDone' = [seq |-> inv.seq, ok |-> TRUE,
                                    message |-> Null, requests |-> inv.requests]
                 /\ UNCHANGED <<detailsError, alertVars>>
    /\ UNCHANGED <<detailsMounted, productId, detailsStarted>>

\* ------------------------------------------------------ specifications

VARIABLE screen   \* the screen whose handlers a behaviour exercises

vars == <<listVars, gwVars, storeVars, alertVars, loginVars, detailsVars, screen>>

\* The state of every component and of the store after construction.
InitState ==
    /\ mounted = FALSE
    /\ categories \in SlugSeqs
    /\ products = <<>>
    /\ isLoading = TRUE
    /\ error = Null
    /\ refreshing = FALSE
    /\ invocations = {}
    /\ started = 0
    /\ lastDone = NoneDone
    /\ newestDone = 0
    /\ gwCall = NoCall
    /\ gwSettled = NoCall
    /\ gwConsole = Null
    /\ gwCalls = 0
    /\ auth = AuthInitialState
    /\ productState = ProductInitialState
    /\ thunks = {}
    /\ dispatched = [count |-> 0, action |-> NoAction,
                     before |-> [auth |-> AuthInitialState,
                                 products |-> ProductInitialState]]
    /\ alert = NoAlert
    /\ alertChoice = "none"
    /\ username = <<>>
    /\ password = <<>>
    /\ loginLoading = FALSE
    /\ isUsernameValid = TRUE
    /\ isPasswordValid = TRUE
    /\ showPassword = FALSE
    /\ loginErrorMessage = ""
    /\ loginAttempts = {}
    /\ loginDone = NoLogin
    /\ detailsMounted = FALSE
    /\ productId = 1
    /\ product = JsNull
    /\ detailsLoading = TRUE
    /\ detailsError = Null
    /\ detailsInvocations = {}
    /\ detailsStarted = 0
    /\ detailsDone = NoDetailsDone

Init == InitState /\ screen = "CategoryProductList"

\* The list component is not mounted: its categories prop has no say.
InitUnmounted == InitState /\ categories = <<>>

outsideList == <<gwVars, storeVars, alertVars, loginVars, detailsVars, screen>>
outsideGateway == <<listVars, storeVars, alertVars, loginVars, detailsVars, screen>>
outsideStore == <<listVars, gwVars, alertVars, loginVars, detailsVars, screen>>
outsideSession == <<listVars, gwVars, detailsVars, screen>>
outsideDetails == <<listVars, gwVars, storeVars, loginVars, screen>>

\* The CategoryProductList component and the remote API behind it.
Next ==
    \/ Mount /\ UNCHANGED outsideList
    \/ \E cats \in SlugSeqs : CategoriesChange(cats) /\ UNCHANGED outsideList
    \/ RetryTap /\ UNCHANGED outsideList
    \/ ReloadTap /\ UNCHANGED outsideList
    \/ OnRefresh /\ UNCHANGED outsideList
    \/ \E inv \in invocations, resp \in CategoryResponses :
          Respond(inv, resp) /\ UNCHANGED outsideList

Spec == Init /\ [][Next]_vars

\* Whether a load completes does not depend on the products a response
\* carries: here a response carries at most one.
SettlingResponses ==
    { r \in CategoryResponses :
        (r.kind = "ok" /\ r.body = "products") => Len(r.products) <= 1 }

\* The request awaited by the invocation started n-th settles.
RespondTo(n) ==
    \E inv \in invocations, resp \in SettlingResponses :
        inv.seq = n /\ Respond(inv, resp) /\ UNCHANGED outsideList

NextSettling ==
    \/ Mount /\ UNCHANGED outsideList
    \/ \E cats \in SlugSeqs : CategoriesChange(cats) /\ UNCHANGED outsideList
    \/ RetryTap /\ UNCHANGED outsideList
    \/ ReloadTap /\ UNCHANGED outsideList
    \/ OnRefresh /\ UNCHANGED outsideList
    \/ \E n \in 1..MaxLoads : RespondTo(n)

\* The component when every request settles: the client gives up on a
\* request after its 10 s timeout, so none stays pending for ever.
SpecSettling ==
    Init /\ [][NextSettling]_vars /\ \A n \in 1..MaxLoads : WF_vars(RespondTo(n))

\* The gateway functions called one at a time with every response.
NextGateway ==
    \/ \E c \in Slugs : CallProductsByCategory(c) /\ UNCHANGED outsideGateway
    \/ \E i \in Ids : CallProductDetails(i) /\ UNCHANGED outsideGateway
    \/ \E resp \in CategoryResponses :
          SettleProductsByCategory(resp) /\ UNCHANGED outsideGateway
    \/ \E resp \in DetailResponses :
          SettleProductDetails(resp) /\ UNCHANGED outsideGateway

SpecGateway == Init /\ [][NextGateway]_vars

\* The store under every sequence of dispatches.
NextStore ==
    \/ \E u \in Users : DispatchLoginSuccess(u) /\ UNCHANGED outsideStore
    \/ DispatchLogout /\ UNCHANGED outsideStore
    \/ \E c \in Slugs : FetchProductsByCategory(c) /\ UNCHANGED outsideStore
    \/ \E t \in thunks, resp \in CategoryResponses :
          SettleFetchProductsByCategory(t, resp) /\ UNCHANGED outsideStore
    \/ \E i \in Ids : FetchProductDetails(i) /\ UNCHANGED outsideStore
    \/ \E t \in thunks, resp \in DetailResponses :
          SettleFetchProductDetails(t, resp) /\ UNCHANGED outsideStore

InitStore == InitUnmounted /\ screen = "Store"

SpecStore == InitStore /\ [][NextStore]_vars

\* The login screen, the settings screen and the navigator over the store.
NextSession ==
    \/ \E text \in Texts : ChangeUsername(text) /\ UNCHANGED outsideSession
    \/ \E text \in Texts : ChangePassword(text) /\ UNCHANGED outsideSession
    \/ BlurField /\ UNCHANGED outsideSession
    \/ TogglePassword /\ UNCHANGED outsideSession
    \/ HandleLogin /\ UNCHANGED outsideSession
    \/ \E a \in loginAttempts : SettleLogin(a) /\ UNCHANGED outsideSession
    \/ DismissAlert /\ UNCHANGED outsideSession
    \/ HandleLogout /\ UNCHANGED outsideSession
    \/ OptionPress /\ UNCHANGED outsideSession
    \/ ChooseCancelar /\ UNCHANGED outsideSession
    \/ ChooseSim /\ UNCHANGED outsideSession

InitSession == InitUnmounted /\ screen = "LoginScreen"

SpecSession == InitSession /\ [][NextSession]_vars

\* The three components that call the gateway.  They share no state, so a
\* behaviour exercises the handlers of one of them.
Screens == {"CategoryProductList", "ProductDetailsScreen", "LoginScreen"}

InitScreens ==
    \/ Init
    \/ InitUnmounted /\ screen \in Screens \ {"CategoryProductList"}

NextScreens ==
    \/ screen = "CategoryProductList" /\ Next
    \/ /\ screen = "ProductDetailsScreen"
       /\ \E i \in Ids : DetailsMount(i)
       /\ UNCHANGED outsideDetails
    \/ /\ screen = "ProductDetailsScreen"
       /\ \E i \in Ids : ProductIdChange(i)
       /\ UNCHANGED outsideDetails
    \/ /\ screen = "ProductDetailsScreen"
       /\ \E inv \in detailsInvocations, resp \in DetailResponses :
             DetailsRespond(inv, resp)
       /\ UNCHANGED outsideDetails
    \/ /\ screen = "LoginScreen"
       /\ \/ \E text \in Texts : ChangeUsername(text)
          \/ \E text \in Texts : ChangePassword(text)
          \/ HandleLogin
          \/ \E a \in loginAttempts : SettleLogin(a)
       /\ UNCHANGED outsideSession
    \/ screen # "CategoryProductList" /\ DismissAlert /\ UNCHANGED outsideSession

SpecScreens == InitScreens /\ [][NextScreens]_vars

\* ------------------------------------------------------------ properties

RECURSIVE Flatten(_)
Flatten(arrays) ==
    IF arrays = <<>> THEN <<>> ELSE Head(arrays) \o Flatten(Tail(arrays))

\* The concatenation, in slug order, of the arrays the invocation that
\* completed last received.
Concatenation == Flatten(lastDone.got)

\* A load has completed (an empty slug sequence included).
Completed == lastDone' # lastDone

Status ==
    IF isLoading THEN "loading"
    ELSE IF error # Null THEN "failed"
    ELSE "succeeded"

\* C1: the stored product list never holds two items with the same id.
ProductIdsDistinct ==
    \A i, j \in DOMAIN products : i # j => products[i].id # products[j].id

\* An id came twice in one response and again in the next category's
\* response, and the list stored from them holds both ids once.
DuplicatesCollapsed ==
    /\ lastDone.ok
    /\ Len(lastDone.got) = 2
    /\ Len(lastDone.got[1]) = 2
    /\ lastDone.got[1][1].id = lastDone.got[1][2].id
    /\ \E k \in DOMAIN lastDone.got[2] : lastDone.got[2][k].id = lastDone.got[1][1].id
    /\ Len(products) = 2
    /\ products = UniqueProducts(Concatenation)

\* C2: after a successful load, the item stored for an id is the occurrence
\* of that id that comes last in the concatenation of the responses.
LastSeenWins ==
    lastDone.ok =>
      \A i \in DOMAIN Concatenation :
        LET same == {j \in DOMAIN Concatenation :
                        Concatenation[j].id = Concatenation[i].id}
            last == CHOOSE j \in same : \A h \in same : h <= j
        IN /\ \E k \in DOMAIN products : products[k] = Concatenation[last]
           /\ \A k \in DOMAIN products :
                products[k].id = Concatenation[i].id
                  => products[k] = Concatenation[last]

\* Slugs [a, b], one product in both responses with different titles: the
\* stored one is b's.
SecondCategoryWins ==
    /\ lastDone.ok
    /\ Len(lastDone.got) = 2
    /\ Len(lastDone.got[1]) = 1
    /\ Len(lastDone.got[2]) = 1
    /\ lastDone.got[1][1].id = lastDone.got[2][1].id
    /\ lastDone.got[1][1].title # lastDone.got[2][1].title
    /\ products = <<lastDone.got[2][1]>>

\* C3: an invocation in which a fetch fails sets a non-null error, leaves the
\* product list as it was, and the view rendered when it completes is the
\* error view.
AllOrNothing ==
    [][(Completed /\ ~lastDone'.ok)
         => /\ products' = products
            /\ error' # Null
            /\ View' = "error"]_vars

\* The second slug failed after the first had returned products, and none of
\* them is stored.
PartialResultDiscarded ==
    /\ ~lastDone.ok
    /\ Len(lastDone.got) = 1
    /\ lastDone.got[1] # <<>>
    /\ products = <<>>
    /\ View = "error"

\* C4: starting a load cancels none of those in flight, and every invocation
\* that completes stores its result, also when an invocation started after
\* it has completed before it.
NoCancellation ==
    [][/\ \A inv \in invocations :
            \/ \E later \in invocations' : later.seq = inv.seq
            \/ lastDone'.seq = inv.seq
       /\ Completed =>
            IF lastDone'.ok
              THEN products' = UniqueProducts(Flatten(lastDone'.got))
              ELSE error' = ErrorText(lastDone'.message)]_vars

\* The invocation started first failed after the one started second had
\* stored its list: the error of the older one is what is shown.
StaleResultOverwrites ==
    /\ lastDone.seq < newestDone
    /\ ~lastDone.ok
    /\ products # <<>>
    /\ invocations = {}
    /\ View = "error"

\* C5: no two invocations of loadProducts are in flight at the same time.
AtMostOneInFlight == Cardinality(invocations) <= 1

\* C6: the status moves only loading -> succeeded, loading -> failed,
\* succeeded -> loading, failed -> loading, and leaves succeeded or failed
\* only when a load is started.
StatusTransitions ==
    [][Status' # Status
         => /\ <<Status, Status'>> \in
                 { <<"loading", "succeeded">>, <<"loading", "failed">>,
                   <<"succeeded", "loading">>, <<"failed", "loading">> }
            /\ Status # "loading" => started' = started + 1]_vars

\* C7: a load that completes without error with zero items shows the empty
\* view with error = null, and a load that fails does not show the empty view.
EmptyDistinctFromError ==
    [][Completed
         => IF lastDone'.ok
              THEN Flatten(lastDone'.got) = <<>> => (error' = Null /\ View' = "empty")
              ELSE View' # "empty"]_vars

\* C8: after a successful load the stored list is exactly the deduplicated
\* concatenation of the responses of that invocation; nothing of the list
\* stored before is carried over.
WholesaleReplacement ==
    lastDone.ok =>
      /\ products = UniqueProducts(Concatenation)
      /\ {products[k] : k \in DOMAIN products}
            \subseteq {Concatenation[i] : i \in DOMAIN Concatenation}
      /\ {products[k].id : k \in DOMAIN products}
            = {Concatenation[i].id : i \in DOMAIN Concatenation}

\* A second load replaced a non-empty list by one that lacks an item of it.
EarlierListReplaced ==
    /\ lastDone.ok
    /\ lastDone.seq = 2
    /\ products # <<>>
    /\ \E k \in DOMAIN lastDone.before :
          \A h \in DOMAIN products : products[h].id # lastDone.before[k].id

\* C9: whatever made the request fail, the gateway function throws the fixed
\* message of its operation; the cause goes to the console only.
GenericGatewayError ==
    (gwSettled # NoCall /\ gwSettled.resp \in TransportFailures) =>
      /\ gwSettled.outcome.type = "throw"
      /\ gwSettled.outcome.message =
            (IF gwSettled.op = "getProductsByCategory"
               THEN ProductsUnavailable ELSE DetailsUnavailable)
      /\ gwSettled.outcome.message
            \notin {gwSettled.resp.cause, gwSettled.resp.data}
      /\ gwConsole \in {gwSettled.resp.cause, gwSettled.resp.data}

\* getProductDetails was called after another call and its request timed out.
TimeoutTranslated ==
    /\ gwCalls = 2
    /\ gwCall = NoCall
    /\ gwSettled.op = "getProductDetails"
    /\ gwSettled.resp.kind = "timeout"
    /\ gwSettled.outcome.type = "throw"
    /\ gwConsole = "timeout of 10000ms exceeded"

\* C10: the error stored by loadProducts is null or the generic message of
\* the gateway.
OnlyGenericErrorShown == error \in {Null, ProductsUnavailable}

\* An action has gone through the store in this step.
Dispatched == dispatched'.count # dispatched.count

\* C14: logout applied to any reachable auth state gives isLoggedIn = false and
\* user = null, and applying it again gives the same state; the state after a
\* dispatched logout is that state.
LogoutResets ==
    /\ authReducer(auth, logout) = [isLoggedIn |-> FALSE, user |-> JsNull]
    /\ authReducer(authReducer(auth, logout), logout) = authReducer(auth, logout)
    /\ dispatched.action = logout => auth = [isLoggedIn |-> FALSE, user |-> JsNull]

\* logout has been dispatched in a logged-in state.
LoggedOutFromLoggedIn ==
    /\ dispatched.action = logout
    /\ dispatched.before.auth.isLoggedIn
    /\ dispatched.before.auth.user # JsNull
    /\ auth = AuthInitialState

\* C15: after loginSuccess({ user }) the auth state is logged in with exactly
\* the profile of the payload, whatever profile was stored before.
LoginStoresPayloadUser ==
    dispatched.action.type = "auth/loginSuccess" =>
        auth = [isLoggedIn |-> TRUE,
                user |-> JsValue(dispatched.action.payload.user)]

\* A profile with a name has been replaced by one without.
ProfileReplaced ==
    /\ dispatched.action = loginSuccess([user |-> OtherUser])
    /\ dispatched.before.auth.user = JsValue(MockUser)
    /\ auth.user = JsValue(OtherUser)

\* C16: the session starts logged out and the auth state changes only in a
\* step that dispatches loginSuccess or logout; the pending, fulfilled and
\* rejected actions of the thunks leave it as it was.
AuthChangedOnlyByAuthActions ==
    /\ auth = AuthInitialState
    /\ [][/\ auth' # auth =>
                /\ Dispatched
                /\ dispatched'.action.type \in {"auth/loginSuccess", "auth/logout"}
          /\ (Dispatched /\ dispatched'.action.type \notin
                                {"auth/loginSuccess", "auth/logout"})
                => auth' = auth]_vars

\* A thunk has been rejected in a logged-in session, which stays logged in.
RejectedWhileLoggedIn ==
    /\ dispatched.action.type = "products/fetchByCategory/rejected"
    /\ dispatched.before.auth.isLoggedIn
    /\ auth = dispatched.before.auth

\* C20: after fetchProductsByCategory.fulfilled for a category, the entry of
\* that category is exactly the products of the payload with status
\* 'succeeded' and error null.
FulfilledReplacesCategory ==
    dispatched.action.type = "products/fetchByCategory/fulfilled" =>
        LET payload == dispatched.action.payload
        IN /\ payload.category \in DOMAIN productState.categories
           /\ productState.categories[payload.category] =
                 [items |-> payload.products, status |-> "succeeded",
                  error |-> Null]

\* A category that held products has been fetched again, and
\* none of its earlier products is in the new entry.
StoredItemsReplaced ==
    /\ dispatched.action.type = "products/fetchByCategory/fulfilled"
    /\ LET c == dispatched.action.payload.category
           old == dispatched.before.products.categories
       IN /\ c \in DOMAIN old
          /\ old[c].items # JsValue(<<>>)
          /\ old[c].items.type = "value"
          /\ productState.categories[c].items.type = "value"
          /\ \A k \in DOMAIN old[c].items.value :
                \A h \in DOMAIN productState.categories[c].items.value :
                    productState.categories[c].items.value[h] # old[c].items.value[k]

\* A handleLogin invocation has settled in this step.
LoginSettled == \E a \in loginAttempts : a \notin loginAttempts'

\* C13: mockLogin resolves with success and the profile {username: 'user',
\* name: 'Usuario Teste'} exactly for the username 'user' with the password
\* 'password'; for every other pair it rejects with the invalid-credentials
\* error.  Checked for every pair handed to it and every attempt that settled.
MockLoginAcceptsOnePair ==
    /\ \A a \in loginAttempts :
          mockLogin(a.name, a.pass) =
             IF a.name = <<"u", "s", "e", "r">>
                /\ a.pass = <<"p", "a", "s", "s", "w", "o", "r", "d">>
               THEN [type |-> "resolve",
                     value |-> [success |-> TRUE,
                                user |-> [username |-> "user",
                                          name |-> "Usuario Teste"]]]
               ELSE [type |-> "reject", message |-> "Usuario ou senha invalidos."]
    /\ loginDone.outcome = "loggedIn" <=>
          /\ loginDone # NoLogin
          /\ loginDone.name = <<"u", "s", "e", "r">>
          /\ loginDone.pass = <<"p", "a", "s", "s", "w", "o", "r", "d">>
    /\ loginDone.outcome = "failed" <=>
          /\ loginDone # NoLogin
          /\ \/ loginDone.name # <<"u", "s", "e", "r">>
             \/ loginDone.pass # <<"p", "a", "s", "s", "w", "o", "r", "d">>

\* The right password with the username followed by a space was rejected.
PaddedUsernameRejected ==
    /\ loginDone.outcome = "failed"
    /\ loginDone.name # User
    /\ Trim(loginDone.name) = User
    /\ loginDone.pass = Password

\* C17: the session becomes logged in only in a step that settles a
\* handleLogin called with 'user' / 'password'; a blank or whitespace-only
\* field never reaches mockLogin and the step that rejects it dispatches
\* nothing; an attempt with any other pair leaves the auth state as it was
\* and sets the error message.
LoginOnlyWithHardcodedPair ==
    /\ [](\A a \in loginAttempts : Trim(a.name) # <<>> /\ Trim(a.pass) # <<>>)
    /\ [][/\ (~auth.isLoggedIn /\ auth'.isLoggedIn) =>
                /\ LoginSettled
                /\ loginDone' = [name |-> User, pass |-> Password,
                                 outcome |-> "loggedIn"]
          /\ \A a \in loginAttempts' \ loginAttempts :
                Trim(a.name) # <<>> /\ Trim(a.pass) # <<>>
          /\ (alert = NoAlert /\ alert' = FieldsAlert) =>
                /\ Trim(username) = <<>> \/ Trim(password) = <<>>
                /\ loginAttempts' = loginAttempts
                /\ ~Dispatched
                /\ auth' = auth
          /\ \A a \in loginAttempts \ loginAttempts' :
                (a.name # User \/ a.pass # Password) =>
                    /\ auth' = auth
                    /\ ~Dispatched
                    /\ loginErrorMessage' = InvalidCredentials]_vars

\* After a rejected attempt with a wrong pair, a submission with a
\* whitespace-only username has been stopped by the validation.
BlankUsernameStopped ==
    /\ loginDone.outcome = "failed"
    /\ alert = FieldsAlert
    /\ username = <<" ">>
    /\ Trim(password) # <<>>
    /\ loginAttempts = {}
    /\ dispatched.count = 0
    /\ ~auth.isLoggedIn

\* C18: pressing "Sair da conta" only shows the confirmation; logout is
\* dispatched only by the step that answers it with "Sim"; "Cancelar" and
\* dismissing the dialog leave the auth state as it was.
LogoutNeedsConfirmation ==
    [][/\ (alert = NoAlert /\ alert' = LogoutAlert) =>
             auth' = auth /\ ~Dispatched
       /\ (Dispatched /\ dispatched'.action = logout) =>
             alert = LogoutAlert /\ alert' = NoAlert /\ alertChoice' = "Sim"
       /\ (alert = LogoutAlert /\ alert' = NoAlert /\ alertChoice' # "Sim") =>
             auth' = auth /\ ~Dispatched]_vars

\* The confirmation has been answered with "Cancelar" and the session is
\* still logged in.
LogoutCancelled ==
    /\ alertChoice = "Cancelar"
    /\ alert = NoAlert
    /\ auth.isLoggedIn
    /\ auth.user = JsValue(MockUser)

\* C19: the authenticated flow is rendered exactly when auth.isLoggedIn is
\* true and the login flow otherwise: a login is in progress only in a
\* logged-out session, the logout confirmation is on screen only in a
\* logged-in one, and after a logout the login flow is rendered again.
NavigatorFollowsAuth ==
    /\ Flow = "MainAppNavigator" <=> auth.isLoggedIn
    /\ Flow = "AuthNavigator" <=> ~auth.isLoggedIn
    /\ loginAttempts # {} => ~auth.isLoggedIn
    /\ alert = FieldsAlert => ~auth.isLoggedIn
    /\ alert = LogoutAlert => auth.isLoggedIn
    /\ dispatched.action = logout => Flow = "AuthNavigator"

\* A logged-in session has logged out and the login flow is rendered.
LoginFlowAfterLogout ==
    /\ dispatched.action = logout
    /\ dispatched.before.auth.isLoggedIn
    /\ Flow = "AuthNavigator"

\* A loadProductDetails invocation has completed in this step.
DetailsCompleted == detailsDone' # detailsDone

\* C11: the step in which an invocation of loadProducts, loadProductDetails
\* or handleLogin fails stores a non-empty error message, sets isLoading to
\* false and ends the invocation: the failure is caught inside it.
FailureReportedAsValue ==
    [][/\ (Completed /\ ~lastDone'.ok) =>
             /\ error' \notin {Null, ""}
             /\ isLoading' = FALSE
             /\ \A inv \in invocations' : inv.seq # lastDone'.seq
       /\ (DetailsCompleted /\ ~detailsDone'.ok) =>
             /\ detailsError' \notin {Null, ""}
             /\ detailsLoading' = FALSE
             /\ \A inv \in detailsInvocations' : inv.seq # detailsDone'.seq
       /\ (LoginSettled /\ loginDone'.outcome = "failed") =>
             /\ loginErrorMessage' # ""
             /\ loginLoading' = FALSE
             /\ loginAttempts' = {}]_vars

\* The second loadProductDetails of a screen has failed after the first
\* one had stored a product.
DetailsFailureShown ==
    /\ detailsDone.seq = 2
    /\ ~detailsDone.ok
    /\ product # JsNull
    /\ detailsError = DetailsUnavailable
    /\ ~detailsLoading
    /\ detailsInvocations = {}
    /\ alert = DetailsAlert

\* A request is issued in this step: by a new invocation, or by one that was
\* in flight.
RequestIssued ==
    \/ \E i \in invocations' :
          \A j \in invocations : j.seq = i.seq => j.requests < i.requests
    \/ \E i \in detailsInvocations' : i \notin detailsInvocations
    \/ \E a \in loginAttempts' : a \notin loginAttempts

\* A trigger occurs in this step.
Triggered ==
    \/ started' # started
    \/ detailsStarted' # detailsStarted
    \/ ~loginLoading /\ loginLoading'

\* C12: a gateway call issues one request, and while the error of a failed
\* invocation is stored, a request is issued only by a step in which a new
\* trigger occurs.
NoRequestAfterFailure ==
    /\ [](\A inv \in invocations : inv.requests = inv.idx)
    /\ [](\A inv \in detailsInvocations : inv.requests = 1)
    /\ [](\A a \in loginAttempts : a.requests = 1)
    /\ [][(error # Null \/ detailsError # Null \/ loginErrorMessage # "")
             => (RequestIssued => Triggered)]_vars

CategoryActions ==
    {"products/fetchByCategory/pending", "products/fetchByCategory/fulfilled",
     "products/fetchByCategory/rejected"}

DetailsActions ==
    {"products/fetchDetails/pending", "products/fetchDetails/fulfilled",
     "products/fetchDetails/rejected"}

\* The category a fetchProductsByCategory action is about.
CategoryOf(action) == action.meta.arg.category

\* C24: the status of a category entry changes only from loading to
\* succeeded or failed and from succeeded or failed to loading, whatever the
\* order in which the fetches of the category are dispatched and settle.
CategoryStatusTransitions ==
    [][\A c \in DOMAIN productState.categories :
          LET old == productState.categories[c].status
              new == productState'.categories[c].status
          IN (Dispatched /\ dispatched'.action.type \in CategoryActions
                /\ CategoryOf(dispatched'.action) = c /\ new # old)
             => <<old, new>> \in {<<"loading", "succeeded">>, <<"loading", "failed">>,
                                  <<"succeeded", "loading">>, <<"failed", "loading">>}]_vars

\* C25: an action of fetchProductsByCategory for a category changes at most
\* the entry of that category, and an action of fetchProductDetails leaves
\* every category entry as it was.
ProductFlowsIndependent ==
    [][/\ (Dispatched /\ dispatched'.action.type \in CategoryActions) =>
             /\ productState'.currentProduct = productState.currentProduct
             /\ productState'.status = productState.status
             /\ productState'.error = productState.error
             /\ DOMAIN productState'.categories =
                   DOMAIN productState.categories \cup {CategoryOf(dispatched'.action)}
             /\ \A c \in DOMAIN productState.categories :
                   c # CategoryOf(dispatched'.action) =>
                       productState'.categories[c] = productState.categories[c]
       /\ (Dispatched /\ dispatched'.action.type \in DetailsActions) =>
             productState'.categories = productState.categories]_vars

\* A fetch of one category has started while the other category has an
\* entry and a product is stored, and both are as they were.
OtherCategoryUntouched ==
    /\ dispatched.action.type = "products/fetchByCategory/pending"
    /\ \E c \in DOMAIN productState.categories :
          /\ c # CategoryOf(dispatched.action)
          /\ c \in DOMAIN dispatched.before.products.categories
          /\ productState.categories[c] = dispatched.before.products.categories[c]
    /\ productState.currentProduct # JsNull
    /\ productState.status = "succeeded"

\* C28: a category entry whose status is 'loading' or 'succeeded' has a null
\* error.
CategoryErrorOnlyWhenFailed ==
    \A c \in DOMAIN productState.categories :
        productState.categories[c].status \in {"loading", "succeeded"}
            => productState.categories[c].error = Null

\* C29: in the single-product flow, status 'succeeded' implies a null error
\* and a current product that is not null.
DetailsSucceededIsClean ==
    productState.status = "succeeded" =>
        productState.error = Null /\ productState.currentProduct # JsNull

\* C26: at most one handleLogin awaits mockLogin, and isLoading is true
\* while it does; a handleLogin starts awaiting only when none is pending,
\* and every loginSuccess is dispatched by the step that settles the one
\* pending attempt, in a session that was logged out.
OneLoginInFlight ==
    /\ [](Cardinality(loginAttempts) <= 1)
    /\ [](loginAttempts # {} => loginLoading)
    /\ [][/\ (\E a \in loginAttempts' : a \notin loginAttempts) =>
                loginAttempts = {} /\ ~loginLoading
          /\ (Dispatched /\ dispatched'.action.type = "auth/loginSuccess") =>
                /\ LoginSettled
                /\ Cardinality(loginAttempts) = 1
                /\ loginAttempts' = {}
                /\ ~auth.isLoggedIn]_vars

\* After a failed attempt a second one is pending, and the username field
\* has been edited since it was submitted.
SecondAttemptPending ==
    /\ loginDone.outcome = "failed"
    /\ loginLoading
    /\ \E a \in loginAttempts : a.name # username /\ a.name = User /\ a.pass = Password

\* C30: auth.isLoggedIn is true exactly when auth.user is not null, and the
\* profile of a logged-in session is the one mockLogin resolves with.
LoggedInIffUser ==
    /\ auth.isLoggedIn <=> auth.user # JsNull
    /\ auth.isLoggedIn => auth.user = JsValue(MockUser)

\* The session has logged in, logged out and logged in again.
LoggedInAgain ==
    /\ auth.isLoggedIn
    /\ auth.user = JsValue(MockUser)
    /\ dispatched.count = 3
    /\ dispatched.before.auth = AuthInitialState

\* C27: while an invocation of loadProducts is in flight isLoading is true,
\* and the view is the spinner or, during a pull-to-refresh, the list.
LoadingWhileInFlight ==
    invocations # {} =>
        /\ isLoading
        /\ View # "spinner" => (View = "list" /\ refreshing)

\* C21: an invocation of loadProducts has exactly one request in flight, the
\* one for the slug at its position in the sequence, and it issues the
\* request for the next slug in the step that receives the response to the
\* previous one.
SequentialRequests ==
    /\ [](\A inv \in invocations :
            /\ inv.requests - Len(inv.got) = 1
            /\ inv.idx = inv.requests
            /\ inv.idx \in 1..Len(inv.cats))
    /\ [][\A i \in invocations, j \in invocations' :
             (j.seq = i.seq /\ j.requests > i.requests) =>
                 /\ j.requests = i.requests + 1
                 /\ j.idx = i.idx + 1
                 /\ Len(j.got) = Len(i.got) + 1]_vars

\* An invocation over two different slugs has received the first response
\* and awaits the second.
SecondSlugRequested ==
    \E inv \in invocations :
        /\ Len(inv.cats) = 2
        /\ inv.cats[1] # inv.cats[2]
        /\ inv.idx = 2
        /\ Len(inv.got) = 1

\* C22: an invocation that fails has issued one request more than it got
\* responses and is no longer in flight; an invocation goes on to its next
\* slug only with the response of the previous one.
StopsAtFirstFailure ==
    /\ [](~lastDone.ok => lastDone.requests = Len(lastDone.got) + 1)
    /\ [][/\ (Completed /\ ~lastDone'.ok) =>
                \A inv \in invocations' : inv.seq # lastDone'.seq
          /\ \A i \in invocations, j \in invocations' :
                (j.seq = i.seq /\ j # i) => Len(j.got) = Len(i.got) + 1]_vars

\* The only invocation, over two slugs, has failed at the first one.
FirstSlugFailed ==
    /\ started = 1
    /\ Len(categories) = 2
    /\ lastDone.seq = 1
    /\ ~lastDone.ok
    /\ lastDone.got = <<>>
    /\ lastDone.requests = 1
    /\ invocations = {}
    /\ View = "error"

\* C23: when every request settles, every invocation of loadProducts that is
\* in flight completes, and the component comes to rest with no invocation in
\* flight, isLoading and refreshing false, showing the list, the empty view
\* or the error view.
EveryLoadCompletes ==
    /\ \A n \in 1..MaxLoads :
          (\E inv \in invocations : inv.seq = n)
             ~> (\A inv \in invocations : inv.seq # n)
    /\ (invocations # {})
          ~> /\ invocations = {}
             /\ ~isLoading
             /\ ~refreshing
             /\ View \in {"list", "empty", "error"}

\* Two overlapping invocations have both completed and the component is at
\* rest.
BothLoadsCompleted ==
    /\ started = 2
    /\ newestDone = 2
    /\ lastDone.seq = 1
    /\ invocations = {}
    /\ ~isLoading
    /\ ~refreshing
    /\ View \in {"list", "empty", "error"}

====
